---- MODULE Spec2Model ----
(***************************************************************************)
(* The TIS-100 execution engine of tis100/node.py, tis100/tis.py and       *)
(* tis100/logger.py: the per-node generator interpreter (Node.run and the  *)
(* op handlers), the port protocol (_read_input/_write_output), the        *)
(* observer sinks (LogNode) and the co-scheduler loop of TIS.run.          *)
(*                                                                         *)
(* A node's generator is represented by the yield it is suspended at       *)
(* (gen[n].at) together with the locals that are live there.  One step of  *)
(* TIS.run's for-loop is RunNode (host injection, then next(node_run));    *)
(* an instruction that finishes without yielding leaves the generator at   *)
(* the top of Node.run's while-loop inside the same next() call, and       *)
(* Dispatch is one iteration of that loop.                                 *)
(***************************************************************************)
EXTENDS Integers, Sequences, FiniteSets, TLC

\* ------------------------------------------------------------- bounds
MaxCycles == 20
MaxLen == 2
MaxInputs == 3
MaxHeaderId == 3
MaxSections == 2

\* ---------------------------------------------------- program constants
IDLE == 0
RUN == 1
READ == 2
WRITE == 3

UP == 0
DOWN == 1
RIGHT == 2
LEFT == 3

MAX_NODES_X == 4
MAX_NODES_Y == 3

\* None, for a direction (_last_port_dir) or an attached node.
NoDir == -1
NoNode == -1

\* The exception that aborted the run, if any.
NoErr == "none"

Dirs == {UP, DOWN, RIGHT, LEFT}

\* A faulty variant of DIRECTIONS: the directions in the order of their numbers.
DIRECTIONS_by_number == <<UP, DOWN, RIGHT, LEFT>>

DIRECTIONS == <<UP, DOWN, LEFT, RIGHT>>

_opposite_directions(d) ==
  CASE d = UP -> DOWN
    [] d = DOWN -> UP
    [] d = LEFT -> RIGHT
    [] d = RIGHT -> LEFT

CardinalLabels == {"UP", "DOWN", "LEFT", "RIGHT"}

_label_to_direction(s) ==
  CASE s = "UP" -> UP
    [] s = "DOWN" -> DOWN
    [] s = "LEFT" -> LEFT
    [] s = "RIGHT" -> RIGHT

op_table == {"NOP", "MOV", "SWP", "SAV", "ADD", "SUB", "NEG",
             "JMP", "JEZ", "JNZ", "JGZ", "JLZ", "JRO"}

\* The integer literal tokens programs of the model use, and int() on them.
Literals == {"-999", "-1", "0", "1", "2", "7", "8", "999"}

ToInt(tok) ==
  CASE tok = "-999" -> 0 - 999
    [] tok = "-1" -> 0 - 1
    [] tok = "0" -> 0
    [] tok = "1" -> 1
    [] tok = "2" -> 2
    [] tok = "7" -> 7
    [] tok = "8" -> 8
    [] tok = "999" -> 999

\* ------------------------------------------------------------ the grid
NumNodes == MAX_NODES_X * MAX_NODES_Y
Nodes == 0 .. (NumNodes - 1)

\* Observer sinks are numbered after the grid nodes, in attachment order.
IsSink(x) == x >= NumNodes
SinkIndex(x) == x - NumNodes + 1

\* TIS.__init__: every cell with y > 0 is attached (bidirectionally) to the
\* cell above it, every cell with x > 0 to the cell on its left.
GridAttached(n, d) ==
  LET x == n % MAX_NODES_X
      y == n \div MAX_NODES_X
  IN CASE d = UP -> IF 0 < y /\ y < MAX_NODES_Y THEN n - MAX_NODES_X ELSE NoNode
       [] d = DOWN -> IF y + 1 < MAX_NODES_Y THEN n + MAX_NODES_X ELSE NoNode
       [] d = LEFT -> IF 0 < x /\ x < MAX_NODES_X THEN n - 1 ELSE NoNode
       [] d = RIGHT -> IF x + 1 < MAX_NODES_X THEN n + 1 ELSE NoNode

\* Logger.attach_to_output, called for sinks[1], sinks[2], ... in order:
\* the k-th sink replaces the DOWN neighbour of node sinks[k] (bidi=False).
RECURSIVE attach_to_output(_, _, _)
attach_to_output(att, sinks, k) ==
  IF k > Len(sinks) THEN att
  ELSE attach_to_output([att EXCEPT ![sinks[k]][DOWN] = NumNodes + k - 1],
                        sinks, k + 1)


\* ------------------------------------------------------------- state
VARIABLES
  ops,                 \* Node.ops, per node (<<>> when unloaded)
  labels,              \* Node.labels, per node
  attached_nodes,      \* Node.attached_nodes, per node and direction
  buffered_input,      \* TIS.buffered_input: node -> direction -> values
  num_buffered_inputs, \* TIS.num_buffered_inputs
  w,                   \* the mutable state of the nodes and sinks (below)
  cur,                 \* position of TIS.run's for-loop in node_runs
  cycle,               \* completed passes of TIS.run's while-loop
  running,             \* inside next(node_run) for node_runs[cur]
  h,                   \* history of the run, for stating properties
  ld                   \* the locals of Loader.load (below)

vars == <<ops, labels, attached_nodes, buffered_input, num_buffered_inputs,
          w, cur, cycle, running, h, ld>>

\* w is a record of the fields every Node carries,
\*   acc, bak, iptr, next_iptr, mode (Node._mode), last_port_dir, inputs,
\* the generator of Node.run,
\*   gen[n] = [at, dir, value]: the yield node n is suspended at,
\* the sinks' seen_inputs, Logger.seen_input_count, the exception err that
\* ended the run, and the per-instruction history
\*   copies[n]  : write_input calls made by n's current instruction
\*                (counted up to 2)
\*   wstate[n]  : "none" | "pending" | "read", the fate of the value n's
\*                current instruction wrote to a port
\*   wval[n]    : that value
\*   origin     : for each queued input, the node that wrote it (NoNode
\*                for the host), parallel to inputs
\*   nowhere[n] : n has executed a blocking write with no neighbour
\*   redispatched[n] : n has dispatched an instruction after such a write
\*   anyread[n] : n's last read through ANY: its input queues before and
\*                after, the direction taken and the value
\*   before_sav[n] : acc and bak of n when its last SAV was dispatched
\*   read_at[n] : the pass of TIS.run's while-loop (counted from 1) in
\*                which the value n's current instruction wrote was read
\*                by the peer; 0 when it was not
\*   popped_at[n] : the pass in which n's current instruction left
\*                _write_output's loop and popped WRITE; 0 when it has not
\*   read_entered[n] : the pass in which n's current instruction pushed
\*                READ for its source; 0 when it has not
\*   last_jro[n] : n's last completed JRO: the index of the JRO, the
\*                value of its source and the next_iptr it set
\*   stamp      : for each queued input, the pass in which it was
\*                enqueued, parallel to inputs
\*   last_read[n] : n's last read_input: who wrote the value (NoNode for
\*                the host), the pass it was enqueued in, the pass of the
\*                read

\* Generator positions (gen[n].at).
AtTop == "top"            \* top of Node.run's while-loop (also: not started)
AtTail == "tail"          \* the yield of _nop/_swp/_sav/_neg/_jmp
AtSrc == "src"            \* _read_src yielded the source's value
AtAnySrc == "anysrc"      \* _read_src, ANY branch, yielded a value
AtReadWait == "rwait"     \* _read_input, blocking, no input yet
AtAnyReadWait == "anyrwait" \* _read_src, ANY branch, no direction had input
AtWriteWait == "wwait"    \* _write_output, blocking, peer not drained
AtWriteDone == "wdone"    \* _write_output yielded True
AtAnyWriteWait == "anywwait" \* _write_dest, ANY branch, after a full scan

\* Node.loaded
loaded(n) == Len(ops[n]) > 0

\* TIS.run: node_runs, the loaded nodes in grid order.
RECURSIVE NodeRunsFrom(_)
NodeRunsFrom(n) ==
  IF n >= NumNodes THEN <<>>
  ELSE (IF loaded(n) THEN <<n>> ELSE <<>>) \o NodeRunsFrom(n + 1)

\* A faulty variant of node_runs: the loaded nodes in descending order.
node_runs_reversed ==
  LET r == NodeRunsFrom(0)
  IN [i \in 1 .. Len(r) |-> r[Len(r) + 1 - i]]

node_runs == NodeRunsFrom(0)

\* Node.mode
mode(x, n) == x.mode[n][Len(x.mode[n])]

\* Node.push_mode
push_mode(x, n, m) == [x EXCEPT !.mode[n] = Append(@, m)]

\* An exception propagates out of the generators and ends the run.
Raise(x, e) == [x EXCEPT !.err = e]

\* Node.pop_mode (list.pop raises IndexError on an empty list)
pop_mode(x, n) ==
  IF x.err # NoErr THEN x
  ELSE IF Len(x.mode[n]) = 0 THEN Raise(x, "IndexError")
  ELSE [x EXCEPT !.mode[n] = SubSeq(@, 1, Len(@) - 1)]

\* Node.get_attached_node (direction already asserted valid)
get_attached_node(n, d) == attached_nodes[n][d]

\* A faulty variant of has_inputs: an observer keeps what it was given in its queue.
has_inputs_sink_keeps(x, node, d) ==
  IF IsSink(node) THEN Len(x.seen_inputs[SinkIndex(node)]) > 0
  ELSE Len(x.inputs[node][d]) > 0

\* A faulty variant of has_inputs: every queue is reported empty.
has_inputs_never(x, node, d) == FALSE

\* Node.has_inputs; a LogNode never stores what it is given.
has_inputs(x, node, d) ==
  IF IsSink(node) THEN FALSE ELSE Len(x.inputs[node][d]) > 0

\* A faulty variant of write_input: an observer logs what it is given
\* twice.
write_input_logs_twice(x, from, node, d, v) ==
  IF IsSink(node)
  THEN [x EXCEPT !.seen_inputs[SinkIndex(node)] = Append(Append(@, v), v),
                 !.seen_input_count = @ + 1,
                 !.copies[from] = IF @ < 2 THEN @ + 1 ELSE @,
                 !.wstate[from] = IF x.wval[from] = v THEN "read" ELSE @]
  ELSE [x EXCEPT !.inputs[node][d] = Append(@, v),
                 !.origin[node][d] = Append(@, from),
                 !.stamp[node][d] = Append(@, cycle + 1),
                 !.copies[from] = IF @ < 2 THEN @ + 1 ELSE @]

\* Node.write_input / LogNode.write_input, called by writer `from`.
write_input(x, from, node, d, v) ==
  IF IsSink(node)
  THEN [x EXCEPT !.seen_inputs[SinkIndex(node)] = Append(@, v),
                 !.seen_input_count = @ + 1,
                 !.copies[from] = IF @ < 2 THEN @ + 1 ELSE @,
                 !.wstate[from] = IF x.wval[from] = v THEN "read" ELSE @]
  ELSE [x EXCEPT !.inputs[node][d] = Append(@, v),
                 !.origin[node][d] = Append(@, from),
                 !.stamp[node][d] = Append(@, cycle + 1),
                 !.copies[from] = IF @ < 2 THEN @ + 1 ELSE @]

\* Node.read_input: pop the head of inputs[d].
read_input(x, n, d) ==
  LET v == Head(x.inputs[n][d])
      o == Head(x.origin[n][d])
      x1 == [x EXCEPT !.inputs[n][d] = Tail(@), !.origin[n][d] = Tail(@),
                      !.stamp[n][d] = Tail(@),
                      !.last_read[n] = [from |-> o,
                                        written |-> Head(x.stamp[n][d]),
                                        read |-> cycle + 1]]
  IN IF o # NoNode /\ x1.wstate[o] = "pending" /\ x1.wval[o] = v
     THEN [x1 EXCEPT !.wstate[o] = "read", !.read_at[o] = cycle + 1]
     ELSE x1

\* The generator of node n suspends at yield `at`.
Park(x, n, at, d, v) ==
  IF x.err # NoErr THEN x
  ELSE [x EXCEPT !.gen[n] = [at |-> at, dir |-> d, value |-> v]]

\* A faulty variant of Complete: the handler has popped the RUN frame
\* itself and Node.run pops once more.
Complete_pops_twice(x, n) ==
  Park(pop_mode(pop_mode(x, n), n), n, AtTop, NoDir, 0)

\* The op handler returned: Node.run pops a mode and loops.
Complete(x, n) == Park(pop_mode(x, n), n, AtTop, NoDir, 0)


\* ------------------------------------------------ _write_output (node.py)

\* A faulty variant of WriteWait: the loop is missing, the writer leaves
\* WRITE at once.
WriteWait_no_loop(x, n, d, v) ==
  Park(pop_mode([x EXCEPT !.popped_at[n] = cycle + 1], n),
       n, AtWriteDone, d, v)

\* _write_output, blocking: the loop `while node.has_inputs(opposite_dir)`,
\* entered after the write and re-entered on every resumption.
WriteWait(x, n, d, v) ==
  LET node == get_attached_node(n, d)
  IN IF has_inputs(x, node, _opposite_directions(d))
     THEN Park(x, n, AtWriteWait, d, v)
     ELSE Park(pop_mode([x EXCEPT !.popped_at[n] = cycle + 1], n),
               n, AtWriteDone, d, v)

\* _write_output(direction, value, blocking=True), up to its first yield.
\* With no neighbour it returns at once, WRITE still pushed, and the calls
\* above it (_write_dest, _mov) return too.
write_output(x, n, d, v) ==
  LET x1 == push_mode(x, n, WRITE)
  IN IF d \notin Dirs THEN Raise(x1, "AssertionError")
     ELSE LET node == get_attached_node(n, d)
          IN IF node = NoNode
             THEN Complete([x1 EXCEPT !.nowhere[n] = TRUE], n)
             ELSE LET x2 == write_input(x1, n, node,
                                        _opposite_directions(d), v)
                      x3 == [x2 EXCEPT !.last_port_dir[n] = d]
                  IN WriteWait(x3, n, d, v)

\* _write_dest, ANY branch: one pass of `for direction in self.DIRECTIONS`
\* from the i-th direction on, each a _write_output(blocking=False).
RECURSIVE AnyWriteScan(_, _, _, _)
AnyWriteScan(x, n, v, i) ==
  IF i > Len(DIRECTIONS) THEN Park(x, n, AtAnyWriteWait, NoDir, v)
  ELSE LET d == DIRECTIONS[i]
           x1 == push_mode(x, n, WRITE)
           node == get_attached_node(n, d)
       IN IF node = NoNode
          THEN AnyWriteScan(pop_mode(x1, n), n, v, i + 1)
          ELSE LET x2 == write_input(x1, n, node,
                                     _opposite_directions(d), v)
                   x3 == [x2 EXCEPT !.last_port_dir[n] = d]
               IN IF has_inputs(x3, node, _opposite_directions(d))
                  THEN AnyWriteScan(pop_mode(x3, n), n, v, i + 1)
                  \* yield True: _write_dest pops its own WRITE and returns
                  ELSE Complete(pop_mode(pop_mode(x3, n), n), n)

\* A faulty variant of mov_acc: the value is added to ACC instead of replacing it.
mov_acc_accumulates(x, n, v) == [x EXCEPT !.acc[n] = @ + v]

\* _write_dest, ACC branch
mov_acc(x, n, v) == [x EXCEPT !.acc[n] = v]

\* _write_dest(dest, value), up to its first yield.
write_dest(x, n, dest, v) ==
  LET xp == [x EXCEPT !.wstate[n] = "pending", !.wval[n] = v]
  IN CASE dest = "ACC" -> Complete(mov_acc(x, n, v), n)
       [] dest = "NIL" -> Complete(x, n)
       [] dest \in CardinalLabels ->
            write_output(xp, n, _label_to_direction(dest), v)
       [] dest = "ANY" -> AnyWriteScan(push_mode(xp, n, WRITE), n, v, 1)
       [] dest = "LAST" -> write_output(xp, n, x.last_port_dir[n], v)
       [] OTHER -> Raise(x, "AssertionError")

\* ------------------------------------------------- _read_input (node.py)

\* _read_input, blocking: the loop `while not self.has_inputs(direction)`
\* and what follows it, entered with READ pushed.
ReadWait(x, n, d) ==
  IF ~has_inputs(x, n, d) THEN Park(x, n, AtReadWait, d, 0)
  ELSE LET v == Head(x.inputs[n][d])
           x1 == read_input(x, n, d)
           x2 == [x1 EXCEPT !.last_port_dir[n] = d]
       IN Park(pop_mode(x2, n), n, AtSrc, d, v)

\* _read_input(direction, blocking=True), up to its first yield.
read_input_blocking(x, n, d) ==
  LET x1 == push_mode([x EXCEPT !.read_entered[n] = cycle + 1], n, READ)
  IN IF d \notin Dirs THEN Raise(x1, "AssertionError")
     ELSE ReadWait(x1, n, d)

\* _read_src, ANY branch: one pass of `for direction in self.DIRECTIONS`
\* from the i-th direction on, each a _read_input(blocking=False).
RECURSIVE AnyReadScan(_, _, _)
AnyReadScan(x, n, i) ==
  IF i > Len(DIRECTIONS) THEN Park(x, n, AtAnyReadWait, NoDir, 0)
  ELSE LET d == DIRECTIONS[i]
           x1 == push_mode(x, n, READ)
       IN IF ~has_inputs(x1, n, d)
          THEN AnyReadScan(pop_mode(x1, n), n, i + 1)
          ELSE LET v == Head(x1.inputs[n][d])
                   x2 == read_input(x1, n, d)
                   x3 == [x2 EXCEPT !.last_port_dir[n] = d]
                   x4 == [x3 EXCEPT !.anyread[n] =
                            [before |-> x.inputs[n], dir |-> d, value |-> v,
                             after |-> x3.inputs[n]]]
               IN Park(pop_mode(x4, n), n, AtAnySrc, d, v)

\* _read_src(src), up to its first yield.
read_src(x, n, src) ==
  CASE src = "BAK" -> Raise(x, "AssertionError")
    [] src = "ACC" -> Park(x, n, AtSrc, NoDir, x.acc[n])
    [] src = "NIL" -> Raise(x, "NameError")
    [] src \in CardinalLabels ->
         read_input_blocking(x, n, _label_to_direction(src))
    [] src = "ANY" ->
         AnyReadScan(push_mode([x EXCEPT !.read_entered[n] = cycle + 1],
                               n, READ), n, 1)
    [] src = "LAST" -> read_input_blocking(x, n, x.last_port_dir[n])
    [] src \in Literals -> Park(x, n, AtSrc, NoDir, ToInt(src))
    [] OTHER -> Raise(x, "ValueError")


\* ------------------------------------------------- op handlers (node.py)

\* Node.cur instruction: ops[iptr]
CurOp(x, n) == ops[n][x.iptr[n] + 1]

\* _jmp
jmp(x, n, label) ==
  IF label \notin DOMAIN labels[n] THEN Raise(x, "AssertionError")
  ELSE Park([x EXCEPT !.next_iptr[n] = labels[n][label]], n, AtTail, NoDir, 0)

Max(a, b) == IF a >= b THEN a ELSE b
Min(a, b) == IF a <= b THEN a ELSE b

\* _jro, after the source has been read
jro(x, n, v) ==
  LET new_iptr == x.next_iptr[n] + v
      to == Max(0, Min(new_iptr, Len(ops[n])))
  IN [x EXCEPT !.next_iptr[n] = to,
               !.last_jro[n] = [done |-> TRUE, iptr |-> x.iptr[n],
                                value |-> v, next_iptr |-> to]]

\* _add, after the source has been read
add(x, n, v) == [x EXCEPT !.acc[n] = @ + v]

\* _sub, after the source has been read
sub(x, n, v) == [x EXCEPT !.acc[n] = @ - v]

\* A faulty variant of sav: the copy goes the wrong way.
sav_reversed(x, n) == [x EXCEPT !.acc[n] = x.bak[n]]

\* _sav, up to its yield
sav(x, n) == [x EXCEPT !.bak[n] = x.acc[n]]

\* _swp, up to its yield
swp(x, n) == [x EXCEPT !.bak[n] = x.acc[n], !.acc[n] = x.bak[n]]

\* The handler of the current op continues once _read_src is exhausted
\* (`for value in self._read_src(src)` has ended with `value` = v).
AfterRead(x, n, v) ==
  LET ins == CurOp(x, n)
  IN CASE ins.op = "MOV" -> write_dest(x, n, ins.a2, v)
       [] ins.op = "ADD" -> Complete(add(x, n, v), n)
       [] ins.op = "SUB" -> Complete(sub(x, n, v), n)
       [] ins.op = "JRO" -> Complete(jro(x, n, v), n)

\* self.op_table[op](arg1, arg2), up to its first yield.
Exec(x, n, ins) ==
  CASE ins.op = "NOP" -> Park(x, n, AtTail, NoDir, 0)
    [] ins.op \in {"MOV", "ADD", "SUB", "JRO"} -> read_src(x, n, ins.a1)
    [] ins.op = "SWP" -> Park(swp(x, n), n, AtTail, NoDir, 0)
    [] ins.op = "SAV" ->
         Park(sav([x EXCEPT !.before_sav[n] =
                              [acc |-> x.acc[n], bak |-> x.bak[n]]], n),
              n, AtTail, NoDir, 0)
    [] ins.op = "NEG" ->
         Park([x EXCEPT !.acc[n] = 0 - @], n, AtTail, NoDir, 0)
    [] ins.op = "JMP" -> jmp(x, n, ins.a1)
    [] ins.op = "JEZ" ->
         IF x.acc[n] = 0 THEN jmp(x, n, ins.a1) ELSE Complete(x, n)
    [] ins.op = "JNZ" ->
         IF x.acc[n] # 0 THEN jmp(x, n, ins.a1) ELSE Complete(x, n)
    [] ins.op = "JGZ" ->
         IF x.acc[n] > 0 THEN jmp(x, n, ins.a1) ELSE Complete(x, n)
    [] ins.op = "JLZ" ->
         IF x.acc[n] < 0 THEN jmp(x, n, ins.a1) ELSE Complete(x, n)

\* Node.get_next_op, with the `self.next_iptr = self.iptr + 1` of Node.run
get_next_op(x, n) ==
  LET nxt == IF x.next_iptr[n] >= Len(ops[n]) THEN 0 ELSE x.next_iptr[n]
  IN [x EXCEPT !.iptr[n] = nxt, !.next_iptr[n] = nxt + 1]

\* One iteration of Node.run's `while True`, up to the handler's first
\* yield (or its return, when it yields nothing).
run(x, n) ==
  LET x1 == push_mode(x, n, RUN)
      x2 == get_next_op(x1, n)
      x3 == [x2 EXCEPT !.copies[n] = 0, !.wstate[n] = "none", !.wval[n] = 0,
                       !.redispatched[n] = x.nowhere[n],
                       !.read_at[n] = 0, !.popped_at[n] = 0,
                       !.read_entered[n] = 0]
      ins == CurOp(x3, n)
  IN IF ins.op \notin op_table THEN Raise(x3, "AssertionError")
     ELSE Exec(x3, n, ins)

\* next(node_run) on a suspended generator: the code after the yield it is
\* suspended at, up to the next yield or the handler's return.
Resume(x, n) ==
  LET g == x.gen[n]
  IN CASE g.at = AtTail -> Complete(x, n)
       [] g.at = AtSrc -> AfterRead(x, n, g.value)
       [] g.at = AtAnySrc -> AfterRead(pop_mode(x, n), n, g.value)
       [] g.at = AtReadWait -> ReadWait(x, n, g.dir)
       [] g.at = AtAnyReadWait -> AnyReadScan(x, n, 1)
       [] g.at = AtWriteWait -> WriteWait(x, n, g.dir, g.value)
       [] g.at = AtWriteDone -> Complete(x, n)
       [] g.at = AtAnyWriteWait -> AnyWriteScan(x, n, g.value, 1)
       [] g.at = AtTop -> x


\* ------------------------------------------------------- the programs

\* An opcode tuple (name, arg1, arg2) as compile_asm emits it; "None" is
\* a missing argument.
I(op, a1, a2) == [op |-> op, a1 |-> a1, a2 |-> a2]

NoLabels == [l \in {} |-> 0]
TwoLabels == [l \in {"L0", "L1"} |-> IF l = "L0" THEN 0 ELSE 1]

\* The instructions the generated programs of node 0 are made of.
Alphabet ==
  { I("MOV", "UP", "ACC"), I("MOV", "RIGHT", "ACC"), I("MOV", "ANY", "ACC"),
    I("MOV", "ACC", "DOWN"), I("MOV", "ACC", "ANY"), I("MOV", "ACC", "UP"),
    I("MOV", "LAST", "ACC"), I("MOV", "ACC", "LAST"),
    I("ADD", "999", "None"), I("NEG", "None", "None"),
    I("SWP", "None", "None"), I("SAV", "None", "None"),
    I("JNZ", "L0", "None"), I("JRO", "-1", "None") }

\* All sequences over S of length lo .. hi.
SeqsOf(S, lo, hi) == UNION { [1 .. k -> S] : k \in lo .. hi }

Programs == SeqsOf(Alphabet, 1, MaxLen)

\* The input lists the host buffers for the echo and for the pipeline.
EchoInputs == SeqsOf({1, 2, 3}, 0, MaxInputs)
PipelineInputs == SeqsOf({5, 6}, 0, MaxInputs)

Unloaded == [n \in Nodes |-> <<>>]
NoLabelsAt == [n \in Nodes |-> NoLabels]
NoInput == [n \in {} |-> [d \in {} |-> <<>>]]

\* TIS.buffer_input(node, direction, values) on an empty buffered_input.
OneInput(n, d, vs) == [m \in {n} |-> [e \in {d} |-> vs]]

\* A run's set-up: the programs the loader installed, the nodes whose DOWN
\* port got an observer (in attach order), and the host's buffered input.
Scenario(name, progs, labs, sinks, bufs) ==
  [name |-> name, progs |-> progs, labs |-> labs, sinks |-> sinks,
   bufs |-> bufs]

\* Section 8, scenario 1: node 0 echoes UP to an observer on its DOWN port.
EchoProgram == << I("MOV", "UP", "DOWN") >>

EchoScenarios ==
  { Scenario("echo", [Unloaded EXCEPT ![0] = EchoProgram], NoLabelsAt,
             <<0>>, OneInput(0, UP, vs)) : vs \in EchoInputs }

\* Section 8, scenario 4: node 0 forwards to node 4, which adds one.
AddOneProgram ==
  << I("MOV", "UP", "ACC"), I("ADD", "1", "None"), I("MOV", "ACC", "DOWN") >>

PipelineScenarios ==
  { Scenario("pipeline",
             [Unloaded EXCEPT ![0] = EchoProgram, ![4] = AddOneProgram],
             NoLabelsAt, <<4>>, OneInput(0, UP, vs)) : vs \in PipelineInputs }

\* Node 5 reads ANY while its UP and LEFT neighbours both write to it, then
\* writes ANY with an observer on DOWN and grid neighbours elsewhere.
CrossScenario ==
  Scenario("cross",
           [Unloaded EXCEPT
              ![1] = << I("MOV", "7", "DOWN") >>,
              ![4] = << I("MOV", "8", "RIGHT") >>,
              ![5] = << I("NOP", "None", "None"), I("MOV", "ANY", "ACC"),
                        I("MOV", "ACC", "ANY") >>],
           NoLabelsAt, <<5>>, NoInput)

\* Node 4 is fed on UP both by node 0 and by the host.
SharedPortScenario ==
  Scenario("shared",
           [Unloaded EXCEPT
              ![0] = << I("MOV", "7", "DOWN") >>,
              ![4] = << I("MOV", "UP", "ACC"), I("MOV", "LEFT", "ACC") >>],
           NoLabelsAt, <<>>, OneInput(4, UP, <<1, 2>>))

\* Node 0 runs any program of the alphabet; node 1 keeps writing to its
\* RIGHT port, node 4 (or an observer) takes what it writes DOWN, and the
\* host has input for its UP and LEFT ports.
FamilyScenarios ==
  { Scenario("family",
             [Unloaded EXCEPT ![0] = p,
                              ![1] = << I("MOV", "7", "LEFT") >>,
                              ![4] = << I("MOV", "UP", "ACC") >>],
             [NoLabelsAt EXCEPT ![0] = TwoLabels],
             sinks,
             [m \in {0} |-> [e \in {UP, LEFT} |->
                               IF e = UP THEN <<1, 2>> ELSE <<3>>]])
    : p \in Programs, sinks \in {<<>>, <<0>>} }

\* Section 8, scenario 2: node 0 adds two inputs and emits the sum.
AccumulateScenario ==
  Scenario("accumulate",
           [Unloaded EXCEPT
              ![0] = << I("MOV", "UP", "ACC"), I("ADD", "UP", "None"),
                        I("MOV", "ACC", "DOWN") >>],
           NoLabelsAt, <<0>>, OneInput(0, UP, <<10, 5>>))

\* Section 8, scenario 3: node 0 emits positive inputs and 0 for the rest.
BranchScenario ==
  Scenario("branch",
           [Unloaded EXCEPT
              ![0] = << I("MOV", "UP", "ACC"), I("JGZ", "pos", "None"),
                        I("MOV", "0", "DOWN"), I("JMP", "top", "None"),
                        I("MOV", "ACC", "DOWN"), I("JMP", "top", "None") >>],
           [NoLabelsAt EXCEPT
              ![0] = [l \in {"top", "pos"} |-> IF l = "top" THEN 0 ELSE 4]],
           <<0>>, OneInput(0, UP, <<3, 0 - 1, 7>>))

\* The remaining ops: NOP, SUB, NEG, JEZ, JLZ, a read of NIL.
ArithScenario ==
  Scenario("arith",
           [Unloaded EXCEPT
              ![0] = << I("NOP", "None", "None"), I("JLZ", "L1", "None"),
                        I("SUB", "2", "None"), I("JEZ", "L0", "None"),
                        I("JLZ", "L1", "None"), I("NEG", "None", "None"),
                        I("SUB", "ACC", "None"), I("JEZ", "L1", "None"),
                        I("NOP", "None", "None"), I("MOV", "NIL", "ACC") >>],
           [NoLabelsAt EXCEPT
              ![0] = [l \in {"L0", "L1"} |-> IF l = "L0" THEN 0 ELSE 5]],
           <<>>, NoInput)

\* Node 0 brings bak to b and acc to a from its UP port, then runs SAV,
\* SWP, SWP.
SavSwpProgram ==
  << I("MOV", "UP", "ACC"), I("SAV", "None", "None"),
     I("MOV", "UP", "ACC"), I("SAV", "None", "None"),
     I("SWP", "None", "None"), I("SWP", "None", "None") >>

SavSwpScenarios ==
  { Scenario("savswp", [Unloaded EXCEPT ![0] = SavSwpProgram], NoLabelsAt,
             <<>>, OneInput(0, UP, <<b, a>>)) : a \in {1, 2}, b \in {1, 2} }

Scenarios ==
  EchoScenarios \cup PipelineScenarios \cup FamilyScenarios
    \cup SavSwpScenarios
    \cup {CrossScenario, SharedPortScenario, AccumulateScenario,
          BranchScenario, ArithScenario}

\* ------------------------------------------------------------- Init

RECURSIVE SumLens(_, _)
SumLens(f, S) ==
  IF S = {} THEN 0
  ELSE LET k == CHOOSE k \in S : TRUE
       IN Len(f[k]) + SumLens(f, S \ {k})

\* TIS.buffer_input adds len(values) for every call.
CountBuffered(bufs) ==
  LET pairs == { <<n, d>> \in Nodes \X Dirs :
                   n \in DOMAIN bufs /\ d \in DOMAIN bufs[n] }
      flat == [p \in pairs |-> bufs[p[1]][p[2]]]
  IN SumLens(flat, pairs)

\* Node.__init__ for every node, LogNode.__init__ / Logger.__init__ for
\* the observers.
InitWorld(nsinks) ==
  [ acc |-> [n \in Nodes |-> 0],
    bak |-> [n \in Nodes |-> 0],
    iptr |-> [n \in Nodes |-> 0],
    next_iptr |-> [n \in Nodes |-> 0],
    mode |-> [n \in Nodes |-> <<IDLE>>],
    last_port_dir |-> [n \in Nodes |-> NoDir],
    inputs |-> [n \in Nodes |-> [d \in Dirs |-> <<>>]],
    gen |-> [n \in Nodes |-> [at |-> AtTop, dir |-> NoDir, value |-> 0]],
    seen_inputs |-> [k \in 1 .. nsinks |-> <<>>],
    seen_input_count |-> 0,
    err |-> NoErr,
    copies |-> [n \in Nodes |-> 0],
    wstate |-> [n \in Nodes |-> "none"],
    wval |-> [n \in Nodes |-> 0],
    origin |-> [n \in Nodes |-> [d \in Dirs |-> <<>>]],
    nowhere |-> [n \in Nodes |-> FALSE],
    redispatched |-> [n \in Nodes |-> FALSE],
    anyread |-> [n \in Nodes |->
                   [before |-> [d \in Dirs |-> <<>>], dir |-> NoDir,
                    value |-> 0, after |-> [d \in Dirs |-> <<>>]]],
    before_sav |-> [n \in Nodes |-> [acc |-> 0, bak |-> 0]],
    read_at |-> [n \in Nodes |-> 0],
    popped_at |-> [n \in Nodes |-> 0],
    read_entered |-> [n \in Nodes |-> 0],
    stamp |-> [n \in Nodes |-> [d \in Dirs |-> <<>>]],
    last_jro |-> [n \in Nodes |-> [done |-> FALSE, iptr |-> 0, value |-> 0,
                                    next_iptr |-> 0]],
    last_read |-> [n \in Nodes |-> [from |-> NoNode, written |-> 0,
                                     read |-> 0]] ]

NoInjection ==
  [node |-> NoNode, dir |-> NoDir, mode |-> IDLE, qlen |-> 0, value |-> 0,
   before |-> <<>>, after |-> <<>>, pending_before |-> 0, pending_after |-> 0,
   pass |-> 0, entered |-> 0]

\* h: what the host buffered at the start (given); the injections made
\* in the current cycle, per node and direction (injected); the latest
\* injection (last); and the instructions dispatched so far inside the
\* current next(node_run), counted up to one more than the program holds
\* (dispatches); the nodes advanced so far in the current pass, in the
\* order of their next(node_run) calls (visits).
InitHistory(sc) ==
  [ given |-> sc.bufs,
    injected |-> [n \in Nodes |-> [d \in Dirs |-> 0]],
    last |-> NoInjection,
    dispatches |-> 0,
    visits |-> <<>> ]

\* Loader.load has returned (or was never called: the programs were
\* installed with load_bytecode directly).
LoaderDone ==
  [ phase |-> "done", disabled |-> {}, headers |-> <<>>,
    disabled_node_ids |-> <<>>, node_id_offset |-> 0, data |-> <<>>,
    programs |-> <<>>, err |-> NoErr ]

InitFrom(S) ==
  \E sc \in S :
    /\ ops = sc.progs
    /\ labels = sc.labs
    /\ attached_nodes =
         attach_to_output([n \in Nodes |-> [d \in Dirs |-> GridAttached(n, d)]],
                          sc.sinks, 1)
    /\ buffered_input = sc.bufs
    /\ num_buffered_inputs = CountBuffered(sc.bufs)
    /\ w = InitWorld(Len(sc.sinks))
    /\ cur = 1
    /\ cycle = 0
    /\ running = FALSE
    /\ h = InitHistory(sc)
    /\ ld = LoaderDone

Init == InitFrom(Scenarios)

\* ------------------------------------------------------------ TIS.run

\* A faulty variant of InjectChoices: the node's mode is not looked at.
InjectChoices_any_mode(n) ==
  IF n \in DOMAIN buffered_input
  THEN LET ready == { d \in DOMAIN buffered_input[n] :
                        /\ Len(buffered_input[n][d]) > 0
                        /\ ~has_inputs(w, n, d) }
       IN IF ready = {} THEN {NoDir} ELSE ready
  ELSE {NoDir}

\* A faulty variant of InjectChoices: the host injects whenever the node
\* is executing an instruction, reading or not.
InjectChoices_while_running(n) ==
  IF n \in DOMAIN buffered_input /\ mode(w, n) \in {RUN, READ}
  THEN LET ready == { d \in DOMAIN buffered_input[n] :
                        /\ Len(buffered_input[n][d]) > 0
                        /\ ~has_inputs(w, n, d) }
       IN IF ready = {} THEN {NoDir} ELSE ready
  ELSE {NoDir}

\* The directions TIS.run's injection loop may pick for node n: those of
\* buffered_input[n] (in the dict's iteration order, which is not fixed)
\* with values left and an empty input queue; NoDir when the loop injects
\* nothing.
InjectChoices(n) ==
  IF n \in DOMAIN buffered_input /\ mode(w, n) = READ
  THEN LET ready == { d \in DOMAIN buffered_input[n] :
                        /\ Len(buffered_input[n][d]) > 0
                        /\ ~has_inputs(w, n, d) }
       IN IF ready = {} THEN {NoDir} ELSE ready
  ELSE {NoDir}

\* node.write_input(d, values.pop(0)) by the host.
Injected(x, n, d) ==
  IF d = NoDir THEN x
  ELSE [x EXCEPT !.inputs[n][d] = Append(@, Head(buffered_input[n][d])),
                 !.origin[n][d] = Append(@, NoNode),
                 !.stamp[n][d] = Append(@, cycle + 1)]

\* The for-loop of TIS.run moves on to the next entry of node_runs; the
\* end of the list ends one pass of `while True`.
NextNode ==
  /\ running' = FALSE
  /\ IF cur < Len(node_runs)
     THEN cur' = cur + 1 /\ cycle' = cycle
     ELSE cur' = 1 /\ cycle' = cycle + 1

\* next(node_run) has returned control in world x1: the generator yielded,
\* raised, or is at the top of Node.run's loop about to dispatch.
Settle(x1, n) ==
  /\ w' = x1
  /\ IF x1.err = NoErr /\ x1.gen[n].at # AtTop
     THEN NextNode
     ELSE running' = TRUE /\ cur' = cur /\ cycle' = cycle

\* One iteration of TIS.run's for-loop body: the host injection for the
\* node, then next(node_run) up to the generator's next yield or to the
\* return of the instruction it was suspended in.
RunNode ==
  /\ ~running
  /\ w.err = NoErr
  /\ cycle < MaxCycles
  /\ \E n \in {node_runs[cur]} :
        \E d \in InjectChoices(n) :
          /\ buffered_input' =
               IF d = NoDir THEN buffered_input
               ELSE [buffered_input EXCEPT ![n][d] = Tail(@)]
          /\ num_buffered_inputs' =
               IF d = NoDir THEN num_buffered_inputs
               ELSE num_buffered_inputs - 1
          /\ h' = [h EXCEPT
                     !.dispatches = 0,
                     !.visits = IF cur = 1 THEN <<n>> ELSE Append(@, n),
                     !.injected =
                        LET base == IF cur = 1
                                    THEN [m \in Nodes |-> [e \in Dirs |-> 0]]
                                    ELSE @
                        IN IF d = NoDir THEN base
                           ELSE [base EXCEPT ![n][d] = @ + 1],
                     !.last =
                        IF d = NoDir THEN @
                        ELSE [node |-> n, dir |-> d, mode |-> mode(w, n),
                              qlen |-> Len(w.inputs[n][d]),
                              value |-> Head(buffered_input[n][d]),
                              before |-> buffered_input[n][d],
                              after |-> buffered_input'[n][d],
                              pending_before |-> num_buffered_inputs,
                              pending_after |-> num_buffered_inputs',
                              pass |-> cycle + 1,
                              entered |-> w.read_entered[n]]]
          /\ \E x1 \in {Resume(Injected(w, n, d), n)} : Settle(x1, n)
  /\ UNCHANGED <<ops, labels, attached_nodes, ld>>

\* Inside next(node_run): the previous instruction returned without a
\* yield pending, and Node.run's loop dispatches the next one.
Dispatch ==
  /\ running
  /\ w.err = NoErr
  /\ \E n \in {node_runs[cur]} :
        /\ \E x1 \in {run(w, n)} : Settle(x1, n)
        /\ h' = [h EXCEPT !.dispatches =
                            IF @ <= Len(ops[n]) THEN @ + 1 ELSE @]
  /\ UNCHANGED <<ops, labels, attached_nodes, buffered_input,
                 num_buffered_inputs, ld>>

Next == RunNode \/ Dispatch

Spec == Init /\ [][Next]_vars

\* The end-to-end scenarios alone, with the host consuming the cycle
\* stream for as long as the model runs: a step that can be taken is taken.
EndToEndSpec ==
  /\ InitFrom(EchoScenarios \cup PipelineScenarios)
  /\ [][Next]_vars
  /\ WF_vars(Next)


\* --------------------------------------------------- Loader.load (loader.py)

\* A line of a program file: the header '@N', or an instruction (given by
\* the opcode tuple compile_asm makes of it).
HeaderLine(N) == [header |-> TRUE, id |-> N, ins |-> I("NOP", "None", "None")]
CodeLine(ins) == [header |-> FALSE, id |-> 0, ins |-> ins]

\* A file of one-instruction sections (each the line ADD 1) under the
\* given headers, from the k-th header on.
RECURSIVE FileFrom(_, _)
FileFrom(headers, k) ==
  IF k > Len(headers) THEN <<>>
  ELSE <<HeaderLine(headers[k]), CodeLine(I("ADD", "1", "None"))>>
         \o FileFrom(headers, k + 1)

\* sorted(self.tis.disabled_node_ids)
RECURSIVE sorted(_)
sorted(S) ==
  IF S = {} THEN <<>>
  ELSE LET m == CHOOSE m \in S : \A o \in S : m <= o
       IN <<m>> \o sorted(S \ {m})

\* The ids a header and the disabled set are drawn from, and the files.
LoaderIds == 0 .. MaxHeaderId
LoaderFiles == SeqsOf(LoaderIds, 0, MaxSections)

\* The locals of Loader.load on entry, for a TIS with the disabled ids D
\* and a file with the given headers.
LoaderStart(D, headers) ==
  [ phase |-> "parse", disabled |-> D, headers |-> headers,
    disabled_node_ids |-> sorted(D), node_id_offset |-> 0,
    data |-> FileFrom(headers, 1), programs |-> <<>>, err |-> NoErr ]

\* The loop `while disabled_node_ids and node_id >= disabled_node_ids[0]`.
RECURSIVE SkipDisabled(_)
SkipDisabled(l) ==
  IF l.disabled_node_ids # <<>> /\ l.node_id >= Head(l.disabled_node_ids)
  THEN SkipDisabled([l EXCEPT !.node_id = @ + 1,
                              !.node_id_offset = @ + 1,
                              !.disabled_node_ids = Tail(@)])
  ELSE l

\* One iteration of `for line in data.splitlines()`.
LoadLine ==
  /\ ld.phase = "parse"
  /\ ld.err = NoErr
  /\ ld.data # <<>>
  /\ LET line == Head(ld.data)
         rest == [ld EXCEPT !.data = Tail(@)]
     IN IF line.header
        THEN LET l0 == [disabled_node_ids |-> ld.disabled_node_ids,
                        node_id_offset |-> ld.node_id_offset,
                        node_id |-> line.id + ld.node_id_offset]
                 l1 == SkipDisabled(l0)
             IN ld' = [rest EXCEPT
                         !.disabled_node_ids = l1.disabled_node_ids,
                         !.node_id_offset = l1.node_id_offset,
                         !.programs =
                            IF l1.node_id \in Nodes
                            THEN Append(@, [node |-> l1.node_id,
                                            program |-> <<>>])
                            ELSE @,
                         !.err = IF l1.node_id \in Nodes THEN NoErr
                                 ELSE "IndexError"]
        ELSE ld' = [rest EXCEPT
                      !.programs =
                         IF @ = <<>> THEN @
                         ELSE [@ EXCEPT ![Len(@)].program =
                                          Append(@, line.ins)]]
  /\ UNCHANGED <<ops, labels, attached_nodes, buffered_input,
                 num_buffered_inputs, w, cur, cycle, running, h>>

\* `for node, program in programs: node.load_bytecode(...)` from the k-th
\* entry on: a later section for the same node replaces an earlier one.
RECURSIVE load_bytecode(_, _, _)
load_bytecode(o, programs, k) ==
  IF k > Len(programs) THEN o
  ELSE load_bytecode([o EXCEPT ![programs[k].node] = programs[k].program],
                     programs, k + 1)

\* The file is read: the programs are installed and load returns.
LoadBytecode ==
  /\ ld.phase = "parse"
  /\ ld.err = NoErr
  /\ ld.data = <<>>
  /\ ops' = load_bytecode(ops, ld.programs, 1)
  /\ ld' = [ld EXCEPT !.phase = "done"]
  /\ UNCHANGED <<labels, attached_nodes, buffered_input,
                 num_buffered_inputs, w, cur, cycle, running, h>>

LoaderNext == LoadLine \/ LoadBytecode

\* A fresh TIS with some ids disabled, and Loader.load on some file.
LoaderInit ==
  /\ ops = Unloaded
  /\ labels = NoLabelsAt
  /\ attached_nodes = [n \in Nodes |-> [d \in Dirs |-> GridAttached(n, d)]]
  /\ buffered_input = NoInput
  /\ num_buffered_inputs = 0
  /\ w = InitWorld(0)
  /\ cur = 1
  /\ cycle = 0
  /\ running = FALSE
  /\ h = InitHistory(Scenario("load", Unloaded, NoLabelsAt, <<>>, NoInput))
  /\ \E D \in SUBSET LoaderIds : \E headers \in LoaderFiles :
       ld = LoaderStart(D, headers)

LoaderSpec == LoaderInit /\ [][LoaderNext]_vars


\* ------------------------------------------------------------ properties

InRange(v) == 0 - 999 <= v /\ v <= 999

\* The scheduler is between two next(node_run) calls.
AtObservation == ~running

\* C1 (port capacity, P1): every input queue of every node holds at most
\* one value in every reachable state.
C1_PortCapacity ==
  \A n \in Nodes : \A d \in Dirs : Len(w.inputs[n][d]) <= 1

\* C2 (no value drop): a node never finishes an instruction that wrote a
\* value to a port while nobody has read that value.
C2_NoValueDrop ==
  \A n \in Nodes :
    w.gen[n].at = AtTop => w.wstate[n] # "pending"

\* C3 (write to a missing neighbour suspends for good): once a node has
\* executed a blocking write with no attached neighbour, it never
\* dispatches again, its mode is WRITE at every observation point, and no
\* error is raised.
C3_WriteToEdgeSuspends ==
  \A n \in Nodes :
    w.nowhere[n] =>
      /\ ~w.redispatched[n]
      /\ w.err = NoErr
      /\ (AtObservation => mode(w, n) = WRITE)

\* C4 (every advance suspends): one next(node_run) dispatches finitely
\* many instructions.  An instruction that returns without yielding
\* changes nothing but next_iptr, so a call that has dispatched more
\* instructions than the program holds has been round the whole program
\* without a yield and never returns: the claim is that no call gets there.
C4_AdvanceSuspends ==
  h.dispatches <= Len(ops[node_runs[cur]])

\* C5 (register range): acc and bak of every node lie in [-999, 999], and
\* so does every value a node has put on a port or handed to an observer.
C5_RegisterRange ==
  /\ \A n \in Nodes : InRange(w.acc[n]) /\ InRange(w.bak[n])
  /\ \A n \in Nodes : \A d \in Dirs :
       \A i \in 1 .. Len(w.inputs[n][d]) :
         w.origin[n][d][i] # NoNode => InRange(w.inputs[n][d][i])
  /\ \A k \in 1 .. Len(w.seen_inputs) :
       \A i \in 1 .. Len(w.seen_inputs[k]) : InRange(w.seen_inputs[k][i])


\* C6 (host injection rule): in one cycle at most one buffered value is
\* moved into any (node, direction); every injection happens with the
\* node's mode READ and its queue for the direction empty, takes the head
\* of the buffered list and lowers the pending count by one.
C6_HostInjectionRule ==
  /\ \A n \in Nodes : \A d \in Dirs : h.injected[n][d] <= 1
  /\ h.last.node # NoNode =>
       /\ h.last.mode = READ
       /\ h.last.qlen = 0
       /\ h.last.before # <<>>
       /\ h.last.value = Head(h.last.before)
       /\ h.last.after = Tail(h.last.before)
       /\ h.last.pending_after = h.last.pending_before - 1

\* An injection has happened in the current cycle.
C6_Witness ==
  /\ h.last.node # NoNode
  /\ h.injected[h.last.node][h.last.dir] = 1
  /\ num_buffered_inputs = h.last.pending_after

\* The first direction with a pending value, in the order UP, DOWN, LEFT,
\* RIGHT.
FirstPending(q) ==
  IF q[UP] # <<>> THEN UP
  ELSE IF q[DOWN] # <<>> THEN DOWN
  ELSE IF q[LEFT] # <<>> THEN LEFT
  ELSE RIGHT

\* C7 (ANY read tie-break): a read through ANY takes exactly one value,
\* the head of the first non-empty queue in the order UP, DOWN, LEFT,
\* RIGHT, records that direction as last_port_dir and leaves the other
\* queues as they were.
C7_AnyReadTieBreak ==
  \A n \in Nodes :
    w.gen[n].at = AtAnySrc =>
      LET r == w.anyread[n]
      IN /\ r.dir = FirstPending(r.before)
         /\ r.value = Head(r.before[r.dir])
         /\ w.gen[n].value = r.value
         /\ w.last_port_dir[n] = r.dir
         /\ r.after = [r.before EXCEPT ![r.dir] = Tail(@)]

\* A read through ANY with values pending on UP and on LEFT took UP's.
C7_Witness ==
  \E n \in Nodes :
    /\ w.gen[n].at = AtAnySrc
    /\ w.anyread[n].before[UP] # <<>>
    /\ w.anyread[n].before[LEFT] # <<>>
    /\ w.anyread[n].dir = UP

\* C8 (ANY write delivers once): an instruction writing to ANY places its
\* value on at most one neighbour's queue.
C8_AnyWriteOnce ==
  \A n \in Nodes :
    (loaded(n) /\ w.wstate[n] # "none" /\ CurOp(w, n).a2 = "ANY")
      => w.copies[n] <= 1

IsPrefix(a, b) == Len(a) <= Len(b) /\ a = SubSeq(b, 1, Len(a))

\* The run is the echo set-up: node 0 alone runs MOV UP, DOWN, the first
\* observer is on its DOWN port, and the host buffered input for its UP.
IsEcho ==
  /\ ops = [Unloaded EXCEPT ![0] = EchoProgram]
  /\ attached_nodes[0][DOWN] = NumNodes
  /\ DOMAIN h.given = {0}
  /\ DOMAIN h.given[0] = {UP}

\* C9 (echo end-to-end): the observer's log is always a prefix of the
\* buffered input vs, and eventually equals vs with no host input pending.
C9_Echo ==
  /\ [](IsEcho => IsPrefix(w.seen_inputs[1], h.given[0][UP]))
  /\ <>(IsEcho => /\ w.seen_inputs[1] = h.given[0][UP]
                  /\ num_buffered_inputs = 0)

\* The echo of <<1, 2, 3>> is complete.
C9_Witness ==
  /\ IsEcho
  /\ h.given[0][UP] = <<1, 2, 3>>
  /\ w.seen_inputs[1] = <<1, 2, 3>>
  /\ num_buffered_inputs = 0

\* The run is the two-node pipeline: node 0 runs MOV UP, DOWN, node 4 the
\* add-one program, the first observer is on node 4's DOWN port, and the
\* host buffered input for node 0's UP.
IsPipeline ==
  /\ ops = [Unloaded EXCEPT ![0] = EchoProgram, ![4] = AddOneProgram]
  /\ attached_nodes[4][DOWN] = NumNodes
  /\ DOMAIN h.given = {0}
  /\ DOMAIN h.given[0] = {UP}

PlusOne(vs) == [i \in 1 .. Len(vs) |-> vs[i] + 1]

\* C10 (two-node pipeline): the observer's log is always a prefix of
\* [v + 1 : v in vs] and eventually equals it; node 4's acc only ever
\* holds 0, an input or an input plus one.
C10_Pipeline ==
  /\ [](IsPipeline =>
          /\ IsPrefix(w.seen_inputs[1], PlusOne(h.given[0][UP]))
          /\ \/ w.acc[4] = 0
             \/ \E i \in 1 .. Len(h.given[0][UP]) :
                  w.acc[4] \in {h.given[0][UP][i], h.given[0][UP][i] + 1})
  /\ <>(IsPipeline => w.seen_inputs[1] = PlusOne(h.given[0][UP]))

\* The pipeline has turned <<5, 6>> into <<6, 7>>.
C10_Witness ==
  /\ IsPipeline
  /\ h.given[0][UP] = <<5, 6>>
  /\ w.seen_inputs[1] = <<6, 7>>
  /\ w.acc[4] = 7


\* C11 (mode stack P2): the mode stack of every node, loaded or not, holds
\* at least one entry in every state, in particular at every observation
\* point, so Node.mode is defined.
C11_ModeStackNonEmpty ==
  \A n \in Nodes : Len(w.mode[n]) >= 1

\* At an observation point a node is suspended just after a port read:
\* the READ frame it pushed is popped again.
C11_Witness ==
  /\ AtObservation
  /\ \E n \in Nodes :
       /\ w.gen[n].at = AtSrc
       /\ w.gen[n].dir \in Dirs
       /\ w.mode[n] = <<IDLE, RUN>>


\* The N-th (from 0) id that is not disabled, in ascending order.
NthEnabled(D, N) ==
  CHOOSE i \in Nodes :
    i \notin D /\ Cardinality({j \in 0 .. (i - 1) : j \notin D}) = N

\* C12 (disabled-node offsetting): when Loader.load returns, the k-th
\* section, headed @N, was put on the N-th non-disabled node, and no
\* disabled node is loaded.
C12_DisabledOffset ==
  (ld.phase = "done" /\ ld.headers # <<>>) =>
    /\ \A k \in 1 .. Len(ld.headers) :
         ld.programs[k].node = NthEnabled(ld.disabled, ld.headers[k])
    /\ \A n \in ld.disabled : ~loaded(n)


\* The lengths of the observers' logs, added up from the k-th on.
RECURSIVE LogTotal(_, _)
LogTotal(logs, k) ==
  IF k > Len(logs) THEN 0 ELSE Len(logs[k]) + LogTotal(logs, k + 1)

\* The shared counter counts what the logs hold, and no node waits in
\* _write_output's loop for an observer.
SinkState ==
  /\ w.seen_input_count = LogTotal(w.seen_inputs, 1)
  /\ \A n \in Nodes :
       w.gen[n].at = AtWriteWait =>
         ~IsSink(get_attached_node(n, w.gen[n].dir))

\* A step changes an observer's log only by appending the one value the
\* advanced node's instruction wrote, counts it once, and leaves that node
\* out of WRITE with its value taken.
SinkStep ==
  \A k \in 1 .. Len(w.seen_inputs) :
    \/ w'.seen_inputs[k] = w.seen_inputs[k]
    \/ \E n \in {node_runs[cur]} :
         /\ w'.seen_inputs[k] = Append(w.seen_inputs[k], w'.wval[n])
         /\ w'.seen_input_count = w.seen_input_count + 1
         /\ get_attached_node(n, DOWN) = NumNodes + k - 1
         /\ w'.gen[n].at \in {AtWriteDone, AtTop}
         /\ mode(w', n) # WRITE
         /\ w'.wstate[n] = "read"

\* C13 (observer sink): every value written to an observer is appended
\* once, in delivery order, to its log and counted once, and the writer
\* leaves WRITE in the same step, never waiting for the observer.
C13_ObserverSink == [](SinkState) /\ [][SinkStep]_vars

\* A node has just written to its observer and is suspended at
\* _write_output's `yield True`, out of WRITE, the value logged.
C13_Witness ==
  \E n \in Nodes :
    /\ w.gen[n].at = AtWriteDone
    /\ IsSink(get_attached_node(n, w.gen[n].dir))
    /\ mode(w, n) = RUN
    /\ w.seen_inputs[SinkIndex(get_attached_node(n, w.gen[n].dir))] # <<>>
    /\ w.seen_input_count >= 2


\* Node n is suspended at the yield of a SWP that directly follows a SWP
\* and a SAV in a program without jumps: it has just run SAV, SWP, SWP.
AfterSavSwpSwp(n) ==
  /\ loaded(n)
  /\ \A i \in 1 .. Len(ops[n]) : ops[n][i].op \notin
        {"JMP", "JEZ", "JNZ", "JGZ", "JLZ", "JRO"}
  /\ w.gen[n].at = AtTail
  /\ w.iptr[n] >= 2
  /\ ops[n][w.iptr[n] + 1].op = "SWP"
  /\ ops[n][w.iptr[n]].op = "SWP"
  /\ ops[n][w.iptr[n] - 1].op = "SAV"

\* C14 as stated (SAV, SWP, SWP): acc equals the bak the node had before
\* the SAV.
C14_SavSwpSwp_OriginalBak ==
  \A n \in Nodes :
    AfterSavSwpSwp(n) => w.acc[n] = w.before_sav[n].bak

\* C14 as amended: SAV, SWP, SWP leaves acc (and bak) equal to the acc the
\* node had before the SAV.
C14_SavSwpSwp ==
  \A n \in Nodes :
    AfterSavSwpSwp(n) =>
      /\ w.acc[n] = w.before_sav[n].acc
      /\ w.bak[n] = w.before_sav[n].acc

\* SAV, SWP, SWP has run from acc = 2, bak = 1.
C14_Witness ==
  /\ AfterSavSwpSwp(0)
  /\ w.before_sav[0] = [acc |-> 2, bak |-> 1]
  /\ w.acc[0] = 2


\* Node n has completed the rendezvous of a blocking write to the grid
\* node `peer`: it is suspended at _write_output's `yield True`.
Rendezvoused(n, peer) ==
  /\ w.gen[n].at = AtWriteDone
  /\ peer = get_attached_node(n, w.gen[n].dir)
  /\ peer \in Nodes

\* C15 as stated (rendezvous completion): the writer pops WRITE in a pass
\* strictly later than the one in which the reader popped the value,
\* whatever the visiting order of the two.
C15_RendezvousStrictlyLater ==
  \A n \in Nodes : \A peer \in Nodes :
    Rendezvoused(n, peer) =>
      /\ w.read_at[n] > 0
      /\ w.read_at[n] < w.popped_at[n]

\* C15 as amended: the writer pops WRITE only after the reader popped the
\* value; in a strictly later pass when the reader is visited after the
\* writer, and no earlier than the reader's pass when it is visited before.
C15_Rendezvous ==
  \A n \in Nodes : \A peer \in Nodes :
    Rendezvoused(n, peer) =>
      /\ w.read_at[n] > 0
      /\ w.read_at[n] <= w.popped_at[n]
      /\ peer > n => w.read_at[n] < w.popped_at[n]

\* A writer that is visited after its reader has popped WRITE in the very
\* pass in which the reader popped the value.
C15_Witness ==
  \E n \in Nodes : \E peer \in Nodes :
    /\ Rendezvoused(n, peer)
    /\ peer < n
    /\ w.read_at[n] = w.popped_at[n]


\* C16 as stated (host injection timing): a node that entered READ on an
\* empty port with buffered host input is handed a value in the pass in
\* which it entered READ.  The host injects as soon as its rule allows, so
\* with input buffered for one port only (a run without choice) "can be
\* handed" is "is handed": no such node is still waiting, nothing handed
\* to it, once that pass is over.
C16_InjectedInEntryCycle ==
  \A n \in Nodes : \A d \in Dirs :
    ( /\ AtObservation
      /\ w.gen[n].at = AtReadWait
      /\ w.gen[n].dir = d
      /\ n \in DOMAIN buffered_input
      /\ DOMAIN buffered_input[n] = {d}
      /\ buffered_input[n][d] # <<>>
      /\ w.inputs[n][d] = <<>> )
    => cycle + 1 <= w.read_entered[n]

\* C16 as amended: a host value is handed to a node only in a pass
\* strictly later than the one in which the node entered READ: the
\* injection test comes before the node's advance, and the node enters
\* READ only while it is advanced.
C16_InjectionTiming ==
  h.last.node # NoNode =>
    /\ h.last.entered > 0
    /\ h.last.entered < h.last.pass

\* A node was handed a host value in the pass right after the one in
\* which it entered READ.
C16_Witness ==
  /\ h.last.node # NoNode
  /\ h.last.pass = h.last.entered + 1


\* C17 (intra-cycle ordering): the nodes advanced in a pass are loaded
\* nodes in ascending id order, each once, and all of them when the pass
\* ends; a value a grid node enqueued is read no earlier than the pass it
\* was enqueued in, and in that very pass only by a reader with a higher
\* id than the writer (a reader with a lower id reads it a pass later at
\* the earliest).
C17_IntraCycleOrdering ==
  /\ \A i \in 1 .. Len(h.visits) :
       /\ loaded(h.visits[i])
       /\ i > 1 => h.visits[i - 1] < h.visits[i]
  /\ (AtObservation /\ cur = 1 /\ cycle > 0) =>
       { h.visits[i] : i \in 1 .. Len(h.visits) } = { n \in Nodes : loaded(n) }
  /\ \A j \in Nodes :
       LET r == w.last_read[j]
       IN r.from \in Nodes =>
            /\ r.written <= r.read
            /\ r.read = r.written => j > r.from
            /\ j < r.from => r.read >= r.written + 1

\* Both cases have happened in a run: a reader with a higher id took a
\* value in the pass it was enqueued in, and one with a lower id took a
\* value a pass after it was enqueued.
C17_Witness ==
  /\ Len(h.visits) >= 2
  /\ \E j \in Nodes :
       /\ w.last_read[j].from \in Nodes
       /\ j > w.last_read[j].from
       /\ w.last_read[j].read = w.last_read[j].written
  /\ \E j \in Nodes :
       /\ w.last_read[j].from \in Nodes
       /\ j < w.last_read[j].from
       /\ w.last_read[j].read = w.last_read[j].written + 1


\* C18 (mode stack balance and bound): when an instruction has completed
\* (the generator is back at the top of Node.run's loop) every frame it
\* pushed is popped, only the base IDLE entry is left; and at every
\* observation point a node's stack holds at most three frames above it.
C18_ModeStackBound ==
  \A n \in Nodes :
    /\ (w.err = NoErr /\ w.gen[n].at = AtTop) => w.mode[n] = <<IDLE>>
    /\ AtObservation => Len(w.mode[n]) <= 1 + 3


\* C19 (JRO): a completed JRO at index iptr with source value v has set
\* next_iptr to iptr + v clamped into [0, len(program)], and the dispatch
\* that follows fetches that instruction, instruction 0 when next_iptr is
\* len(program).
C19_JroRelativeToItself ==
  \A n \in Nodes :
    LET j == w.last_jro[n]
        target == Max(0, Min(j.iptr + j.value, Len(ops[n])))
    IN j.done =>
         /\ j.next_iptr = target
         /\ (w.gen[n].at # AtTop /\ w.err = NoErr) =>
              w.iptr[n] \in
                {j.iptr, IF target >= Len(ops[n]) THEN 0 ELSE target}


\* Node n is executing a MOV that names LAST while its last_port_dir is
\* still unset.
InLastUnset(n) ==
  /\ loaded(n)
  /\ Len(w.mode[n]) >= 2
  /\ w.last_port_dir[n] = NoDir
  /\ CurOp(w, n).op = "MOV"
  /\ "LAST" \in {CurOp(w, n).a1, CurOp(w, n).a2}

\* C20 (LAST before any port use): such an instruction raises no error
\* and leaves no READ or WRITE frame on the mode stack; a read from LAST
\* has yielded the value 0 and no input queue holds anything.
C20_LastUnsetIsNoOp ==
  \A n \in Nodes :
    InLastUnset(n) =>
      /\ w.err = NoErr
      /\ mode(w, n) = RUN
      /\ CurOp(w, n).a1 = "LAST" =>
           /\ w.gen[n].at = AtSrc
           /\ w.gen[n].value = 0

\* Instruction ins of node n writes to no port, or to a cardinal port
\* that has a grid neighbour or an observer attached.
PlainInstruction(n, ins) ==
  ins.op = "MOV" =>
    \/ ins.a2 \in {"ACC", "NIL"}
    \/ /\ ins.a2 \in CardinalLabels
       /\ get_attached_node(n, _label_to_direction(ins.a2)) # NoNode

\* Some grid node has node n attached on the port that faces n's
\* direction d: its writes land in inputs[d] of n.
HasGridWriter(n, d) ==
  \E m \in Nodes : get_attached_node(m, _opposite_directions(d)) = n

\* The run is plain: no loaded program writes to ANY, to LAST or to a
\* port with nothing attached, and the host buffered nothing for a port
\* that a grid node writes to.
PlainRun ==
  /\ \A n \in Nodes : \A i \in 1 .. Len(ops[n]) : PlainInstruction(n, ops[n][i])
  /\ \A n \in DOMAIN h.given : \A d \in DOMAIN h.given[n] :
       h.given[n][d] # <<>> => ~HasGridWriter(n, d)

\* C21 (one-slot mailbox for plain programs): in a plain run every input
\* queue of every node holds at most one value in every reachable state.
C21_OneSlotMailbox ==
  PlainRun => \A n \in Nodes : \A d \in Dirs : Len(w.inputs[n][d]) <= 1

\* A plain run in which some node already read a value its grid
\* neighbour wrote in an earlier pass, and the same neighbour's next
\* value, written in a later pass, now waits alone in the same queue.
C21_Witness ==
  /\ PlainRun
  /\ \E n \in Nodes : \E d \in Dirs :
       /\ w.last_read[n].from \in Nodes
       /\ w.origin[n][d] = << w.last_read[n].from >>
       /\ Len(w.inputs[n][d]) = 1
       /\ w.stamp[n][d][1] > w.last_read[n].written

====
